---- MODULE Spec2Model ----
(***************************************************************************)
(* Job lifecycle of the Podcastfy async API: the podcasts table, the       *)
(* submission endpoint with its deduplication gate, and the polling        *)
(* worker loop.  Rows are kept in insertion order; a job's id is its       *)
(* position in the table (ids are fresh and never reused).                 *)
(***************************************************************************)
EXTENDS Integers, Sequences, FiniteSets, Bags, TLC

\* ---------------------------------------------------------------- bounds
\* The number of submissions that can be in flight at once.
MaxReqs == 2

\* ------------------------------------------------------ program constants
ErrorLimit == 500
NoFileMsgLen == 49
R2PrefixLen == 49
R2ErrorMinLen == 17
RailwayNoFileMsgLen == 40
LibraryLimit == 100
IdleInterval == 5
BackoffInterval == 10

\* The source keys callers submit; two keys are the fewest on which claims
\* about distinct keys (ordering, independence of rows) have a case.  The
\* request model takes any string as url: one key is a well-formed URL with
\* a path, one has an unclosed bracket in its host (urlparse raises
\* ValueError on it), and the key of the two-worker deployment has no path.
BadUrl == "http://[b"
URLs == {"https://example.org/a", BadUrl}
OneUrl == {"https://example.org"}
AllWorkers == {1, 2}
\* The two worker scripts of the repository.
WorkerPy == "worker.py"
RailwayPy == "railway_worker.py"
Entries == {WorkerPy, RailwayPy}
SingleWorker == {1}
TwoWorkers == {1, 2}

\* Lengths of the error texts an external collaborator may raise.
ErrLens == {0, ErrorLimit + 1}
\* Lengths of the texts R2Storage.upload_audio_file raises: "R2 upload error: "
\* followed by the text of the underlying error.
R2ErrLens == {R2ErrorMinLen + e : e \in ErrLens}
\* Sizes of the file generate_podcast leaves behind: empty or not.
FileSizes == {0, 1}

\* A nullable column or Optional value: None, or Some(v).
None == << >>
Some(v) == <<v>>

MinOf(S) == CHOOSE x \in S : \A y \in S : x <= y

VARIABLES
    jobs,        \* the podcasts table: sequence of rows, id = index
    clock,       \* datetime.utcnow(), advanced at every stamp
    reqs,        \* the bag of submissions in flight: position and locals of each
    worker,      \* per worker loop: position and locals
    workers,     \* the worker loops that run against the store
    keys,        \* the source keys callers submit in this deployment
    entry,       \* the script the worker loops run: worker.py or railway_worker.py
    genCount,    \* per job: number of generate_podcast invocations
    claimCount   \* per job: number of times a worker marked it processing

vars == <<jobs, clock, reqs, worker, workers, keys, entry, genCount, claimCount>>

\* --------------------------------------------------------------- models.py
\* Mutant: the row is inserted with a status the worker does not poll for.
Podcast_WrongStatus(id, url, now) ==
    [id |-> id, url |-> url, title |-> None, audio_filename |-> None,
     audio_url |-> None, status |-> "pending", created_at |-> now,
     started_at |-> None, completed_at |-> None, duration |-> None,
     error_message |-> None, retry_count |-> 0]

\* Mutant: started_at gets the column default of created_at.
Podcast_StartedAtDefault(id, url, now) ==
    [id |-> id, url |-> url, title |-> None, audio_filename |-> None,
     audio_url |-> None, status |-> "queued", created_at |-> now,
     started_at |-> Some(now), completed_at |-> None, duration |-> None,
     error_message |-> None, retry_count |-> 0]

\* A row as create_podcast_job builds it: column defaults of Podcast.
Podcast(id, url, now) ==
    [id |-> id, url |-> url, title |-> None, audio_filename |-> None,
     audio_url |-> None, status |-> "queued", created_at |-> now,
     started_at |-> None, completed_at |-> None, duration |-> None,
     error_message |-> None, retry_count |-> 0]

\* Mutant: every row is shown with an audio link.
to_dict_AlwaysAudio(p) ==
    [id |-> p.id, url |-> p.url, title |-> p.title,
     audio_url |-> Some(<<"/api/audio/", p.id>>),
     status |-> p.status, created_at |-> Some(p.created_at),
     started_at |-> p.started_at, completed_at |-> p.completed_at,
     duration |-> p.duration, error_message |-> p.error_message,
     retry_count |-> p.retry_count]

\* Podcast.to_dict: the audio_url column if it is set, else the API's audio
\* route for a completed row, else nothing.
to_dict(p) ==
    [id |-> p.id, url |-> p.url, title |-> p.title,
     audio_url |-> IF p.audio_url # None THEN p.audio_url
                   ELSE IF p.status = "completed"
                   THEN Some(<<"/api/audio/", p.id>>) ELSE None,
     status |-> p.status, created_at |-> Some(p.created_at),
     started_at |-> p.started_at, completed_at |-> p.completed_at,
     duration |-> p.duration, error_message |-> p.error_message,
     retry_count |-> p.retry_count]

\* Mutant: the url column without its unique constraint.
UniqueViolation_NoConstraint(js, url) == FALSE

\* Mutant: the constraint covers only the rows that are not failed.
UniqueViolation_UnlessFailed(js, url) ==
    \E i \in DOMAIN js : js[i].url = url /\ js[i].status # "failed"

\* url = Column(String, unique=True): a second row with the same url is refused.
UniqueViolation(js, url) == \E i \in DOMAIN js : js[i].url = url

\* ------------------------------------------------------ podcast_service.py
\* db.add + db.commit: appends the row, or raises on the unique constraint.
create_podcast_job(js, url, now) ==
    IF UniqueViolation(js, url)
    THEN [ok |-> FALSE, jobs |-> js, id |-> 0]
    ELSE [ok |-> TRUE, jobs |-> Append(js, Podcast(Len(js) + 1, url, now)),
          id |-> Len(js) + 1]

get_podcast_by_id(js, id) == IF id \in DOMAIN js THEN Some(js[id]) ELSE None

get_podcast_by_url(js, url) ==
    LET m == {i \in DOMAIN js : js[i].url = url}
    IN  IF m = {} THEN None ELSE Some(js[MinOf(m)])

\* Mutant: the newest queued job first.
get_next_queued_job_Newest(js) ==
    LET q == {i \in DOMAIN js : js[i].status = "queued"}
        newest == {i \in q : \A k \in q : js[i].created_at >= js[k].created_at}
    IN  IF q = {} THEN None ELSE Some(js[MinOf(newest)])

\* Mutant: the poll filters on a status no row ever has.
get_next_queued_job_WrongStatus(js) ==
    LET q == {i \in DOMAIN js : js[i].status = "pending"}
        oldest == {i \in q : \A k \in q : js[i].created_at <= js[k].created_at}
    IN  IF q = {} THEN None ELSE Some(js[MinOf(oldest)])

\* Mutant: failed jobs are polled again.
get_next_queued_job_OrFailed(js) ==
    LET q == {i \in DOMAIN js : js[i].status \in {"queued", "failed"}}
        oldest == {i \in q : \A k \in q : js[i].created_at <= js[k].created_at}
    IN  IF q = {} THEN None ELSE Some(js[MinOf(oldest)])

\* Mutant: the poll also returns jobs that are processing.
get_next_queued_job_Unfinished(js) ==
    LET q == {i \in DOMAIN js : js[i].status \in {"queued", "processing"}}
        oldest == {i \in q : \A k \in q : js[i].created_at <= js[k].created_at}
    IN  IF q = {} THEN None ELSE Some(js[MinOf(oldest)])

\* filter_by(status='queued').order_by(created_at).first()
get_next_queued_job(js) ==
    LET q == {i \in DOMAIN js : js[i].status = "queued"}
        oldest == {i \in q : \A k \in q : js[i].created_at <= js[k].created_at}
    IN  IF q = {} THEN None ELSE Some(js[MinOf(oldest)])

\* Mutant: the keyword columns are dropped, only the status is written.
update_podcast_status_StatusOnly(js, id, status, kwargs) ==
    IF id \notin DOMAIN js THEN js
    ELSE [js EXCEPT ![id].status = status]

\* order_by(created_at.desc()): the rows of the ids in S, newest first.
RECURSIVE NewestFirst(_, _)
NewestFirst(js, S) ==
    IF S = {} THEN << >>
    ELSE LET newest == {i \in S : \A k \in S : js[i].created_at >= js[k].created_at}
             i == MinOf(newest)
         IN  <<js[i]>> \o NewestFirst(js, S \ {i})

\* Mutant: the limit is not applied.
get_all_podcasts_NoLimit(js, limit) == NewestFirst(js, DOMAIN js)

\* query(Podcast).order_by(created_at.desc()).limit(limit).all()
get_all_podcasts(js, limit) ==
    LET all == NewestFirst(js, DOMAIN js)
    IN  IF Len(all) <= limit THEN all ELSE SubSeq(all, 1, limit)

\* The files of the API host's audio directory that matter for job id: the
\* one named by the row's audio_filename and the one named after the id
\* (the three "podcast_<uuid>.mp3" spellings and the two base paths are one
\* name here).
PatternFile(id) == <<"podcast_", id>>
get_existing_audio_path(id, disk) ==
    IF PatternFile(id) \in disk THEN Some(PatternFile(id)) ELSE None

\* Mutant: marking a job failed removes its row.
update_podcast_status_Deleting(js, id, status, kwargs) ==
    IF id \notin DOMAIN js THEN js
    ELSE IF status = "failed"
    THEN SubSeq(js, 1, id - 1) \o SubSeq(js, id + 1, Len(js))
    ELSE [js EXCEPT ![id] =
            [f \in DOMAIN js[id] |->
                IF f = "status" THEN status
                ELSE IF f \in DOMAIN kwargs THEN kwargs[f]
                ELSE js[id][f]]]

\* Mutant: the update has no filter on the id and writes every row.
update_podcast_status_AllRows(js, id, status, kwargs) ==
    IF id \notin DOMAIN js THEN js
    ELSE [i \in DOMAIN js |->
            [f \in DOMAIN js[i] |->
                IF f = "status" THEN status
                ELSE IF f \in DOMAIN kwargs THEN kwargs[f]
                ELSE js[i][f]]]

\* Sets status and every keyword column, whatever the row's current status;
\* an unknown id changes nothing.
update_podcast_status(js, id, status, kwargs) ==
    IF id \notin DOMAIN js THEN js
    ELSE [js EXCEPT ![id] =
            [f \in DOMAIN js[id] |->
                IF f = "status" THEN status
                ELSE IF f \in DOMAIN kwargs THEN kwargs[f]
                ELSE js[id][f]]]

\* -------------------------------------------------------- deduplication.py
ApiAudio(id) == Some(<<"/api/audio/", id>>)

\* Mutant: a completed podcast is not reused.
check_existing_podcast_NoReuseCompleted(js, url) ==
    LET e == get_podcast_by_url(js, url)
    IN  IF e = None THEN [exists |-> FALSE, podcast |-> None, response |-> None]
        ELSE IF e[1].status \in {"queued", "processing"}
        THEN [exists |-> TRUE, podcast |-> Some(e[1].id),
              response |-> Some([job_id |-> e[1].id, status |-> e[1].status,
                                 audio_url |-> None])]
        ELSE [exists |-> FALSE, podcast |-> Some(e[1].id), response |-> None]

\* Mutant: an in-flight podcast is not reused.
check_existing_podcast_NoReuseInFlight(js, url) ==
    LET e == get_podcast_by_url(js, url)
    IN  IF e = None THEN [exists |-> FALSE, podcast |-> None, response |-> None]
        ELSE IF e[1].status = "completed"
        THEN [exists |-> TRUE, podcast |-> Some(e[1].id),
              response |-> Some([job_id |-> e[1].id, status |-> "completed",
                                 audio_url |-> ApiAudio(e[1].id)])]
        ELSE [exists |-> FALSE, podcast |-> Some(e[1].id), response |-> None]

\* Mutant: a failed podcast is handed back like an in-flight one.
check_existing_podcast_ReuseFailed(js, url) ==
    LET e == get_podcast_by_url(js, url)
    IN  IF e = None THEN [exists |-> FALSE, podcast |-> None, response |-> None]
        ELSE IF e[1].status = "completed"
        THEN [exists |-> TRUE, podcast |-> Some(e[1].id),
              response |-> Some([job_id |-> e[1].id, status |-> "completed",
                                 audio_url |-> ApiAudio(e[1].id)])]
        ELSE [exists |-> TRUE, podcast |-> Some(e[1].id),
              response |-> Some([job_id |-> e[1].id, status |-> e[1].status,
                                 audio_url |-> None])]

\* The "podcast" entry of the result is the ORM row; it is kept by its id.
check_existing_podcast(js, url) ==
    LET e == get_podcast_by_url(js, url)
    IN  IF e = None THEN [exists |-> FALSE, podcast |-> None, response |-> None]
        ELSE IF e[1].status = "completed"
        THEN [exists |-> TRUE, podcast |-> Some(e[1].id),
              response |-> Some([job_id |-> e[1].id, status |-> "completed",
                                 audio_url |-> ApiAudio(e[1].id)])]
        ELSE IF e[1].status \in {"queued", "processing"}
        THEN [exists |-> TRUE, podcast |-> Some(e[1].id),
              response |-> Some([job_id |-> e[1].id, status |-> e[1].status,
                                 audio_url |-> None])]
        ELSE [exists |-> FALSE, podcast |-> Some(e[1].id), response |-> None]

\* ------------------------------------------------------------ async_app.py
\* The HTTP answers of POST /api/generate-async.
Ok200(body) == [code |-> 200, job_id |-> body.job_id, status |-> body.status,
                audio_url |-> body.audio_url]
Err500 == [code |-> 500, job_id |-> 0, status |-> "error", audio_url |-> None]

\* Mutant: the status answer never carries an audio_url.
get_job_status_NoAudio(js, job_id) ==
    LET podcast == get_podcast_by_id(js, job_id)
    IN  IF podcast = None THEN [code |-> 404]
        ELSE [code |-> 200, status |-> podcast[1].status,
              error_message |-> podcast[1].error_message,
              created_at |-> Some(podcast[1].created_at),
              started_at |-> podcast[1].started_at,
              completed_at |-> podcast[1].completed_at,
              audio_url |-> None]

\* GET /api/status/{job_id}: 404 for an unknown id, else the row's status,
\* message and stamps, and "/api/audio/{job_id}" exactly when completed.
get_job_status(js, job_id) ==
    LET podcast == get_podcast_by_id(js, job_id)
    IN  IF podcast = None THEN [code |-> 404]
        ELSE [code |-> 200, status |-> podcast[1].status,
              error_message |-> podcast[1].error_message,
              created_at |-> Some(podcast[1].created_at),
              started_at |-> podcast[1].started_at,
              completed_at |-> podcast[1].completed_at,
              audio_url |-> IF podcast[1].status = "completed"
                            THEN ApiAudio(job_id) ELSE None]

\* PodcastResponse(**podcast.to_dict()): the fields the response model has.
PodcastResponse(d) ==
    [id |-> d.id, url |-> d.url, title |-> d.title, audio_url |-> d.audio_url,
     status |-> d.status, created_at |-> d.created_at, duration |-> d.duration]

\* GET /api/library
get_podcast_library(js) ==
    LET podcasts == get_all_podcasts(js, LibraryLimit)
    IN  [i \in DOMAIN podcasts |-> PodcastResponse(to_dict(podcasts[i]))]

\* Mutant: the audio route does not look at the status.
serve_audio_file_AnyStatus(js, podcast_id, disk) ==
    LET podcast == get_podcast_by_id(js, podcast_id)
    IN  IF podcast = None THEN [code |-> 404, file |-> None]
        ELSE IF /\ podcast[1].audio_filename # None
                /\ podcast[1].audio_filename[1] \in disk
        THEN [code |-> 200, file |-> podcast[1].audio_filename]
        ELSE LET audio_path == get_existing_audio_path(podcast[1].id, disk)
             IN  IF audio_path = None THEN [code |-> 404, file |-> None]
                 ELSE [code |-> 200, file |-> audio_path]

\* GET /api/audio/{podcast_id}: 404 for an unknown id and for a job that is
\* not completed; else the file named by audio_filename if it is on disk,
\* else the file found by get_existing_audio_path, else 404.
serve_audio_file(js, podcast_id, disk) ==
    LET podcast == get_podcast_by_id(js, podcast_id)
    IN  IF podcast = None THEN [code |-> 404, file |-> None]
        ELSE IF podcast[1].status # "completed"
        THEN [code |-> 404, file |-> None]
        ELSE IF /\ podcast[1].audio_filename # None
                /\ podcast[1].audio_filename[1] \in disk
        THEN [code |-> 200, file |-> podcast[1].audio_filename]
        ELSE LET audio_path == get_existing_audio_path(podcast[1].id, disk)
             IN  IF audio_path = None THEN [code |-> 404, file |-> None]
                 ELSE [code |-> 200, file |-> audio_path]

NoResult == [exists |-> FALSE, podcast |-> None, response |-> None]
\* A handler that has answered: the gate's result, a local, is gone.
Answered(u, response) ==
    [pc |-> "done", url |-> u, result |-> NoResult, response |-> Some(response)]
One(q) == SetToBag({q})

\* generate_podcast_async up to and including the deduplication read; a
\* Reuse answer returns at once.
SubmitCheck(u) ==
    /\ u \in keys
    /\ BagCardinality(reqs) < MaxReqs
    /\ LET result == check_existing_podcast(jobs, u)
       IN  reqs' = reqs (+) One(
                IF result.exists
                THEN Answered(u, Ok200(result.response[1]))
                ELSE [pc |-> "checked", url |-> u, result |-> result,
                      response |-> None])
    /\ UNCHANGED <<jobs, clock, worker, workers, keys, entry, genCount, claimCount>>

\* generate_podcast_async after the gate said "not exists": the insert, its
\* answer, or the except branch turning any exception into a 500.
SubmitInsert(q) ==
    /\ BagIn(q, reqs)
    /\ q.pc = "checked"
    /\ LET c == create_podcast_job(jobs, q.url, clock)
       IN  IF c.ok
           THEN /\ jobs' = c.jobs
                /\ clock' = clock + 1
                /\ genCount' = Append(genCount, 0)
                /\ claimCount' = Append(claimCount, 0)
                /\ reqs' = (reqs (-) One(q)) (+) One(
                              Answered(q.url,
                                  Ok200([job_id |-> c.id,
                                         status |-> c.jobs[c.id].status,
                                         audio_url |-> None])))
           ELSE /\ reqs' = (reqs (-) One(q)) (+) One(Answered(q.url, Err500))
                /\ UNCHANGED <<jobs, clock, genCount, claimCount>>
    /\ UNCHANGED <<worker, workers, keys, entry>>

\* The submit handler while the store is failing.  Every exception inside
\* the handler's try block becomes a 500.
\* The gate's query raises: nothing was written.
SubmitCheckError(u) ==
    /\ u \in keys
    /\ BagCardinality(reqs) < MaxReqs
    /\ reqs' = reqs (+) One(Answered(u, Err500))
    /\ UNCHANGED <<jobs, clock, worker, workers, keys, entry, genCount, claimCount>>

\* db.commit() in create_podcast_job raises for another reason than the
\* constraint: the row is not written.
SubmitCommitError(q) ==
    /\ BagIn(q, reqs)
    /\ q.pc = "checked"
    /\ reqs' = (reqs (-) One(q)) (+) One(Answered(q.url, Err500))
    /\ UNCHANGED <<jobs, clock, worker, workers, keys, entry, genCount, claimCount>>

\* db.commit() in create_podcast_job goes through and db.refresh(podcast),
\* the query after it, raises: the row is written and the handler's except
\* branch answers 500.
SubmitRefreshError(q) ==
    /\ BagIn(q, reqs)
    /\ q.pc = "checked"
    /\ LET c == create_podcast_job(jobs, q.url, clock)
       IN  /\ c.ok
           /\ jobs' = c.jobs
           /\ clock' = clock + 1
           /\ genCount' = Append(genCount, 0)
           /\ claimCount' = Append(claimCount, 0)
           /\ reqs' = (reqs (-) One(q)) (+) One(Answered(q.url, Err500))
    /\ UNCHANGED <<worker, workers, keys, entry>>

\* The caller has its answer; the request is over.
SubmitReturn(q) ==
    /\ BagIn(q, reqs)
    /\ q.pc = "done"
    /\ reqs' = reqs (-) One(q)
    /\ UNCHANGED <<jobs, clock, worker, workers, keys, entry, genCount, claimCount>>

\* ---------------------------------------------------------------- worker.py
\* sleep is the argument of the asyncio.sleep the loop is awaiting, 0 while
\* it awaits none.
IdleWorker == [pc |-> "poll", job_id |-> 0, podcast_url |-> "",
               audio_path |-> None, audio_url |-> None, error |-> 0,
               sleep |-> 0]

\* urlparse(url) with netloc.replace('www.', '') and the non-empty segments
\* of the path, on the keys of the model: None when urlparse raises.
urlparse(url) ==
    IF url = BadUrl THEN None
    ELSE IF url = "https://example.org/a"
         THEN Some([domain |-> "example.org", path_parts |-> <<"a">>])
         ELSE Some([domain |-> "example.org", path_parts |-> << >>])

\* path_parts[-1].replace('-', ' ').replace('_', ' ').title()
TitleBase(segment) == IF segment = "a" THEN "A" ELSE segment

DefaultTitle == "Generated Podcast"

\* Mutant: a url that cannot be parsed leaves the title unset.
extract_title_from_url_NoFallback(url) ==
    LET parsed == urlparse(url)
    IN  IF parsed = None THEN None
        ELSE Some(<<"title", url>>)

\* The value extract_title_from_url returns, as the title column holds it.
extract_title_from_url(url) ==
    LET parsed == urlparse(url)
    IN  IF parsed = None
        THEN Some(DefaultTitle)
        ELSE LET path_parts == parsed[1].path_parts
             IN  IF path_parts # << >>
                 THEN Some(<<TitleBase(path_parts[Len(path_parts)]), " - ",
                             parsed[1].domain>>)
                 ELSE Some(<<"Podcast from ", parsed[1].domain>>)

\* Mutant: an empty poll waits as long as a loop error does.
Poll_LongSleep(w) ==
    /\ w \in workers
    /\ worker[w].pc = "poll"
    /\ LET job == get_next_queued_job(jobs)
       IN  worker' = [worker EXCEPT ![w] =
                IF job = None
                THEN [IdleWorker EXCEPT !.pc = "idle_sleep",
                                        !.sleep = BackoffInterval]
                ELSE [IdleWorker EXCEPT !.pc = "start", !.job_id = job[1].id]]
    /\ UNCHANGED <<jobs, clock, reqs, workers, keys, entry, genCount, claimCount>>

\* worker_main_loop: one poll of get_next_queued_job.
Poll(w) ==
    /\ w \in workers
    /\ worker[w].pc = "poll"
    /\ LET job == get_next_queued_job(jobs)
       IN  worker' = [worker EXCEPT ![w] =
                IF job = None
                THEN [IdleWorker EXCEPT !.pc = "idle_sleep",
                                        !.sleep = IdleInterval]
                ELSE [IdleWorker EXCEPT !.pc = "start", !.job_id = job[1].id]]
    /\ UNCHANGED <<jobs, clock, reqs, workers, keys, entry, genCount, claimCount>>

\* asyncio.sleep(5) after an empty poll.
IdleSleep(w) ==
    /\ w \in workers
    /\ worker[w].pc = "idle_sleep"
    /\ worker' = [worker EXCEPT ![w] = IdleWorker]
    /\ UNCHANGED <<jobs, clock, reqs, workers, keys, entry, genCount, claimCount>>

\* asyncio.sleep(10) in the loop's except branch.
Backoff(w) ==
    /\ w \in workers
    /\ worker[w].pc = "backoff"
    /\ worker' = [worker EXCEPT ![w] = IdleWorker]
    /\ UNCHANGED <<jobs, clock, reqs, workers, keys, entry, genCount, claimCount>>

\* Mutant: the attempt starts without the processing update.
StartJob_Unmarked(w) ==
    /\ w \in workers
    /\ worker[w].pc = "start"
    /\ LET id == worker[w].job_id
           p == get_podcast_by_id(jobs, id)
       IN  IF p = None
           THEN worker' = [worker EXCEPT ![w] = IdleWorker]
           ELSE worker' = [worker EXCEPT ![w].pc = "generate",
                                         ![w].podcast_url = p[1].url]
    /\ UNCHANGED <<jobs, clock, reqs, workers, keys, entry, genCount, claimCount>>

\* process_podcast_job, first session: look the job up, capture its url and
\* mark it processing with started_at.
StartJob(w) ==
    /\ w \in workers
    /\ worker[w].pc = "start"
    /\ LET id == worker[w].job_id
           p == get_podcast_by_id(jobs, id)
       IN  IF p = None
           THEN /\ worker' = [worker EXCEPT ![w] = IdleWorker]
                /\ UNCHANGED <<jobs, clock, claimCount>>
           ELSE /\ jobs' = update_podcast_status(jobs, id, "processing",
                                [started_at |-> Some(clock)])
                /\ clock' = clock + 1
                /\ claimCount' = [claimCount EXCEPT ![id] = @ + 1]
                /\ worker' = [worker EXCEPT ![w].pc = "generate",
                                            ![w].podcast_url = p[1].url]
    /\ UNCHANGED <<reqs, workers, keys, entry, genCount>>

\* "if not audio_path or not os.path.exists(audio_path)": what the check
\* lets through is a path with a file behind it, whatever the file's size.
OutputFiles(id, n) == {<<id, n, size>> : size \in FileSizes}
FileSize(audio_path) == audio_path[3]

\* The step after the file check: worker.py uploads to R2, railway_worker.py
\* goes straight to the completion session.
AfterFileCheck(e) == IF e = WorkerPy THEN "upload" ELSE "complete"
NoFileMsg(e) == IF e = WorkerPy THEN NoFileMsgLen ELSE RailwayNoFileMsgLen

\* generate_podcast(urls=[podcast_url], ...) and the check of its output file.
Generate(w) ==
    /\ w \in workers
    /\ worker[w].pc = "generate"
    /\ LET id == worker[w].job_id
       IN  /\ genCount' = [genCount EXCEPT ![id] = @ + 1]
           /\ \/ \E f \in OutputFiles(id, genCount[id] + 1) :
                    worker' = [worker EXCEPT ![w].pc = AfterFileCheck(entry),
                                             ![w].audio_path = Some(f)]
              \/ worker' = [worker EXCEPT ![w].pc = "fail",
                                ![w].error = NoFileMsg(entry)]
              \/ \E e \in ErrLens :
                    worker' = [worker EXCEPT ![w].pc = "fail", ![w].error = e]
    /\ UNCHANGED <<jobs, clock, reqs, workers, keys, entry, claimCount>>

\* railway_worker.py reads podcast.url inside the try block after the session
\* that loaded the row was committed and closed.  Whether the detached row
\* still yields the attribute is the ORM's doing: either the read succeeds
\* (Generate) or it raises and the attempt takes the except branch without
\* having called generate_podcast.
DetachedRead(w) ==
    /\ w \in workers
    /\ entry = RailwayPy
    /\ worker[w].pc = "generate"
    /\ \E e \in ErrLens :
          worker' = [worker EXCEPT ![w].pc = "fail", ![w].error = e]
    /\ UNCHANGED <<jobs, clock, reqs, workers, keys, entry, genCount, claimCount>>

\* get_r2_storage().upload_audio_file(audio_path, filename)
Upload(w) ==
    /\ w \in workers
    /\ worker[w].pc = "upload"
    /\ \/ worker' = [worker EXCEPT ![w].pc = "complete",
                        ![w].audio_url = Some(<<"r2", worker[w].audio_path[1]>>)]
       \/ \E e \in R2ErrLens :
             worker' = [worker EXCEPT ![w].pc = "fail",
                                      ![w].error = R2PrefixLen + e]
    /\ UNCHANGED <<jobs, clock, reqs, workers, keys, entry, genCount, claimCount>>

\* The keyword columns of the completed update: railway_worker.py has no
\* audio_url among them.
CompletedColumns(e, l, now, duration) ==
    LET common == [completed_at |-> Some(now),
                   audio_filename |-> l.audio_path,
                   title |-> extract_title_from_url(l.podcast_url),
                   duration |-> duration]
    IN  IF e = WorkerPy
        THEN [audio_url |-> l.audio_url] @@ common
        ELSE common

\* The completion session: title, best-effort duration, status completed.
Complete(w) ==
    /\ w \in workers
    /\ worker[w].pc = "complete"
    /\ \E duration \in {None, Some(1)} :
          jobs' = update_podcast_status(jobs, worker[w].job_id, "completed",
                    CompletedColumns(entry, worker[w], clock, duration))
    /\ clock' = clock + 1
    /\ worker' = [worker EXCEPT ![w] = IdleWorker]
    /\ UNCHANGED <<reqs, workers, keys, entry, genCount, claimCount>>

\* Mutant: the error text is stored whole.
Truncate_Whole(len) == len

\* str(e)[:500], on the length of the text.
Truncate(len) == IF len <= ErrorLimit THEN len ELSE ErrorLimit

\* Mutant: the counter is stepped the wrong way.
NextRetryCount_Down(podcast_obj) ==
    IF podcast_obj = None THEN 1 ELSE podcast_obj[1].retry_count - 1

\* Mutant: the counter is written back as it was read.
NextRetryCount_Keep(podcast_obj) ==
    IF podcast_obj = None THEN 1 ELSE podcast_obj[1].retry_count

\* "podcast_obj.retry_count + 1 if podcast_obj else 1"
NextRetryCount(podcast_obj) ==
    IF podcast_obj = None THEN 1 ELSE podcast_obj[1].retry_count + 1

\* Mutant: the except branch puts the job back in the queue.
Fail_Requeue(w) ==
    /\ w \in workers
    /\ worker[w].pc = "fail"
    /\ LET id == worker[w].job_id
           p == get_podcast_by_id(jobs, id)
           retry_count == NextRetryCount(p)
       IN  jobs' = update_podcast_status(jobs, id, "queued",
                    [error_message |-> Some(Truncate(worker[w].error)),
                     retry_count |-> retry_count])
    /\ clock' = clock + 1
    /\ worker' = [worker EXCEPT ![w] = IdleWorker]
    /\ UNCHANGED <<reqs, workers, keys, entry, genCount, claimCount>>

\* The except branch of process_podcast_job: status failed, truncated text,
\* retry_count read from the row and incremented.
Fail(w) ==
    /\ w \in workers
    /\ worker[w].pc = "fail"
    /\ LET id == worker[w].job_id
           p == get_podcast_by_id(jobs, id)
           retry_count == NextRetryCount(p)
       IN  jobs' = update_podcast_status(jobs, id, "failed",
                    [completed_at |-> Some(clock),
                     error_message |-> Some(Truncate(worker[w].error)),
                     retry_count |-> retry_count])
    /\ clock' = clock + 1
    /\ worker' = [worker EXCEPT ![w] = IdleWorker]
    /\ UNCHANGED <<reqs, workers, keys, entry, genCount, claimCount>>

\* Mutant: the loop's except branch leaves the loop.
StoreErrorInLoop_Exit(w) ==
    /\ w \in workers
    /\ worker[w].pc \in {"poll", "start", "fail"}
    /\ worker' = [worker EXCEPT ![w] = [IdleWorker EXCEPT !.pc = "stopped"]]
    /\ UNCHANGED <<jobs, clock, reqs, workers, keys, entry, genCount, claimCount>>

\* A store operation raises outside the attempt's try block (the poll, the
\* processing update, the failed update): the loop's except branch backs off.
\* The loop's local job is still bound while it does (it is set again by
\* the next poll); the locals of process_podcast_job are gone.
StoreErrorInLoop(w) ==
    /\ w \in workers
    /\ worker[w].pc \in {"poll", "start", "fail"}
    /\ worker' = [worker EXCEPT ![w] = [IdleWorker EXCEPT !.pc = "backoff",
                                            !.sleep = BackoffInterval,
                                            !.job_id = worker[w].job_id]]
    /\ UNCHANGED <<jobs, clock, reqs, workers, keys, entry, genCount, claimCount>>

\* The completed update raises inside the try block: the attempt takes the
\* except branch with that error's text.
StoreErrorInComplete(w) ==
    /\ w \in workers
    /\ worker[w].pc = "complete"
    /\ \E e \in ErrLens :
          worker' = [worker EXCEPT ![w].pc = "fail", ![w].error = e]
    /\ UNCHANGED <<jobs, clock, reqs, workers, keys, entry, genCount, claimCount>>

\* The worker process is interrupted or killed wherever it is (neither
\* script's "except Exception" catches KeyboardInterrupt; a kill runs no
\* handler at all) and is started again: the locals are gone, the table is
\* as the last committed update left it.
Kill(w) ==
    /\ w \in workers
    /\ worker[w] # IdleWorker
    /\ worker' = [worker EXCEPT ![w] = IdleWorker]
    /\ UNCHANGED <<jobs, clock, reqs, workers, keys, entry, genCount, claimCount>>

\* ------------------------------------------------- async_app.py, read paths
\* The ids a caller may ask for: those of the jobs that can exist, and one
\* that never does.
ReadIds == 0 .. Cardinality(URLs)

\* What the API host's audio directory may hold for job id: any of the file
\* its row names and the file named after the id.
Disks(js, id) ==
    SUBSET ({PatternFile(id)} \cup
            (IF id \in DOMAIN js /\ js[id].audio_filename # None
             THEN {js[id].audio_filename[1]} ELSE {}))

\* The three GET handlers, for whatever id the caller asks: one query, an
\* answer, no write and no commit (get_db only closes the session).
\* Mutant: the status handler stamps the row it reads.
GetStatus_Touch ==
    /\ \E id \in DOMAIN jobs :
          jobs' = update_podcast_status(jobs, id, jobs[id].status,
                                        [completed_at |-> Some(clock)])
    /\ UNCHANGED <<clock, reqs, worker, workers, keys, entry, genCount, claimCount>>

GetStatus ==
    /\ {id \in ReadIds : get_job_status(jobs, id).code \in {200, 404}} # {}
    /\ UNCHANGED vars

GetLibrary ==
    /\ Len(get_podcast_library(jobs)) <= LibraryLimit
    /\ UNCHANGED vars

ServeAudio ==
    /\ {id \in ReadIds :
          \E disk \in Disks(jobs, id) :
             serve_audio_file(jobs, id, disk).code \in {200, 404}} # {}
    /\ UNCHANGED vars

\* ------------------------------------------------------------ specification
InitCommon ==
    /\ jobs = << >>
    /\ clock = 1
    /\ reqs = EmptyBag
    /\ worker = [w \in AllWorkers |-> IdleWorker]
    /\ genCount = << >>
    /\ claimCount = << >>

\* One worker loop (the deployment the design assumes) started from either
\* script, two source keys.
Init == InitCommon /\ workers = SingleWorker /\ keys = URLs /\ entry \in Entries
\* Two worker loops polling the same store, one source key.
InitMulti ==
    InitCommon /\ workers = TwoWorkers /\ keys = OneUrl /\ entry \in Entries

Next ==
    \/ \E u \in URLs \cup OneUrl : SubmitCheck(u)
    \/ \E q \in BagToSet(reqs) : SubmitInsert(q)
    \/ \E q \in BagToSet(reqs) : SubmitReturn(q)
    \/ \E w \in AllWorkers : Poll(w)
    \/ \E w \in AllWorkers : IdleSleep(w)
    \/ \E w \in AllWorkers : Backoff(w)
    \/ \E w \in AllWorkers : StartJob(w)
    \/ \E w \in AllWorkers : Generate(w)
    \/ \E w \in AllWorkers : DetachedRead(w)
    \/ \E w \in AllWorkers : Upload(w)
    \/ \E w \in AllWorkers : Complete(w)
    \/ \E w \in AllWorkers : Fail(w)
    \/ \E w \in AllWorkers : StoreErrorInLoop(w)
    \/ \E w \in AllWorkers : StoreErrorInComplete(w)
    \/ \E w \in AllWorkers : Kill(w)

Spec == Init /\ [][Next]_vars
SpecMulti == InitMulti /\ [][Next]_vars

\* The same program while every store operation succeeds: no step in which a
\* database call raises, and so no pass through the loop's except branch
\* (everything else that can raise sits inside the attempt's try block).
NextReliable ==
    \/ \E u \in URLs \cup OneUrl : SubmitCheck(u)
    \/ \E q \in BagToSet(reqs) : SubmitInsert(q)
    \/ \E q \in BagToSet(reqs) : SubmitReturn(q)
    \/ \E w \in AllWorkers : Poll(w)
    \/ \E w \in AllWorkers : IdleSleep(w)
    \/ \E w \in AllWorkers : StartJob(w)
    \/ \E w \in AllWorkers : Generate(w)
    \/ \E w \in AllWorkers : DetachedRead(w)
    \/ \E w \in AllWorkers : Upload(w)
    \/ \E w \in AllWorkers : Complete(w)
    \/ \E w \in AllWorkers : Fail(w)

\* One turn of "while True" in worker_main_loop, or one step of the attempt
\* it awaits: the loop has no exit besides KeyboardInterrupt, its sleeps
\* end, and generate_podcast and the upload are taken to return.
LoopStep ==
    \E w \in AllWorkers :
        \/ Poll(w) \/ IdleSleep(w) \/ StartJob(w)
        \/ Generate(w) \/ DetachedRead(w) \/ Upload(w)
        \/ Complete(w) \/ Fail(w)

\* A worker loop that keeps running against a store that does not fail;
\* callers may submit or not, whenever they like.
SpecLive == Init /\ [][NextReliable]_vars /\ WF_vars(LoopStep)

\* The program together with the callers of its read endpoints.
NextRead ==
    \/ Next
    \/ GetStatus
    \/ GetLibrary
    \/ ServeAudio

SpecRead == Init /\ [][NextRead]_vars

\* The program and the callers of one read endpoint.
NextLibrary == Next \/ GetLibrary
SpecLibrary == Init /\ [][NextLibrary]_vars

NextAudio == Next \/ ServeAudio
SpecAudio == Init /\ [][NextAudio]_vars

\* The program with a store that may fail under the submit handler as well.
NextSubmitErrors ==
    \/ Next
    \/ \E u \in URLs \cup OneUrl : SubmitCheckError(u)
    \/ \E q \in BagToSet(reqs) : SubmitCommitError(q)
    \/ \E q \in BagToSet(reqs) : SubmitRefreshError(q)

SpecSubmitErrors == Init /\ [][NextSubmitErrors]_vars

\* ------------------------------------------------------------------ claims
Keys == URLs \cup OneUrl
JobsFor(u) == {i \in DOMAIN jobs : jobs[i].url = u}
Active == {"queued", "processing", "completed"}
Terminal == {"completed", "failed"}
InFlight == BagToSet(reqs)
DoneReqs == {q \in InFlight : q.pc = "done"}
\* The gate found no row at all / found only a failed row.
SawNothing(q) == q.pc = "checked" /\ q.result.podcast = None
SawFailed(q) == q.pc = "checked" /\ q.result.podcast # None
\* This step answers submission q with the response a.
Answers(q, a) == reqs' = (reqs (-) One(q)) (+) One(Answered(q.url, a))
\* This step takes in a submission of key u and answers it at once with a.
AnswersAtOnce(u, a) == reqs' = reqs (+) One(Answered(u, a))
Reply(i, st, au) == [code |-> 200, job_id |-> i, status |-> st, audio_url |-> au]

\* C1: two submissions of one key that both passed the gate while no job for
\* the key existed are both answered 200 with the same job id (the loser of
\* the insert race reads the existing job instead of failing).
C1_ConcurrentSubmitsShareJob ==
    [][\A q \in InFlight :
         (SubmitInsert(q) /\ SawNothing(q))
         => \E i \in DOMAIN jobs' :
              /\ jobs'[i].url = q.url
              /\ \E au \in {None, ApiAudio(i)} :
                    Answers(q, Reply(i, jobs'[i].status, au))
              /\ \A q2 \in DoneReqs :
                    (q2.url = q.url /\ q2.response[1].code = 200)
                    => q2.response[1].job_id = i]_vars

\* C2: every key has at most one job that is queued, processing or completed,
\* and an insert for a key that has such a job is refused (answered with an
\* error) and leaves the table as it was.
C2_AtMostOneActive ==
    \A u \in Keys :
        Cardinality({i \in JobsFor(u) : jobs[i].status \in Active}) <= 1
C2_InsertRefused ==
    \A q \in InFlight :
        (SubmitInsert(q) /\ \E i \in JobsFor(q.url) : jobs[i].status \in Active)
        => /\ jobs' = jobs
           /\ Answers(q, Err500)
C2_OneActiveJobPerKey == []C2_AtMostOneActive /\ [][C2_InsertRefused]_vars
\* An insert was refused because the key's job, created meanwhile, is active.
C2_Witness ==
    \E q \in DoneReqs :
        /\ q.response = Some(Err500)
        /\ \E i \in JobsFor(q.url) : jobs[i].status \in Active

\* C3: a submission whose key has only a failed job creates a new job, with
\* a new id, queued, retry_count 0, answers with that id, and leaves the
\* failed row as it was.
C3_RetryAfterFailure ==
    [][\A q \in InFlight :
         (SubmitInsert(q) /\ SawFailed(q)
          /\ \A i \in JobsFor(q.url) : jobs[i].status = "failed")
         => /\ Len(jobs') = Len(jobs) + 1
            /\ jobs'[Len(jobs')].status = "queued"
            /\ jobs'[Len(jobs')].retry_count = 0
            /\ jobs'[Len(jobs')].url = q.url
            /\ \A i \in DOMAIN jobs : jobs'[i] = jobs[i]
            /\ Answers(q, Reply(Len(jobs'), "queued", None))]_vars

\* C4: no job is taken (marked processing and handed to an attempt) by more
\* than one claimer.
C4_ClaimedAtMostOnce == \A i \in DOMAIN jobs : claimCount[i] <= 1

\* C5: a job that is completed or failed keeps that status in every later
\* step.
C5_TerminalIsFinal ==
    [][\A i \in DOMAIN jobs :
         jobs[i].status \in Terminal => jobs'[i].status = jobs[i].status]_vars

\* C6: a request to mark a job processing that is not queued, or completed or
\* failed that is not processing, is rejected and leaves the row unchanged.
C6_IllegalTransitionRejected ==
    [][\A w \in AllWorkers :
         LET id == worker[w].job_id
         IN  /\ (StartJob(w) /\ id \in DOMAIN jobs
                 /\ jobs[id].status # "queued") => jobs' = jobs
             /\ ((Complete(w) \/ Fail(w)) /\ id \in DOMAIN jobs
                 /\ jobs[id].status # "processing") => jobs' = jobs]_vars

\* C7: the gate is the table: no job -> CreateNew; completed -> Reuse with the
\* job's id, status completed and an artifact reference; queued or processing
\* -> Reuse with the job's id, its current status and no artifact reference;
\* failed -> CreateNew; Reuse and CreateNew arise for no other input.
C7_GateTable ==
    \A u \in Keys :
        LET g == check_existing_podcast(jobs, u)
        IN  /\ JobsFor(u) = {} => ~g.exists /\ g.response = None
            /\ \A i \in JobsFor(u) :
                 /\ jobs[i].status = "completed" =>
                      /\ g.exists
                      /\ g.response = Some([job_id |-> i, status |-> "completed",
                                            audio_url |-> ApiAudio(i)])
                 /\ jobs[i].status \in {"queued", "processing"} =>
                      /\ g.exists
                      /\ g.response = Some([job_id |-> i,
                                            status |-> jobs[i].status,
                                            audio_url |-> None])
                 /\ jobs[i].status = "failed" =>
                      ~g.exists /\ g.response = None
            /\ g.exists <=> \E i \in JobsFor(u) : jobs[i].status \in Active
\* The table holds a completed and a failed job, and a submission has just
\* been answered by the gate with the completed one.
C7_Witness ==
    /\ \E i \in DOMAIN jobs : jobs[i].status = "failed"
    /\ \E q \in DoneReqs :
          /\ q.response[1].status = "completed"
          /\ jobs[q.response[1].job_id].status = "completed"

\* C8: a submission for a key whose job is completed is answered at once with
\* that job's id and artifact reference, creates no job, changes no row and
\* invokes no generate; repeated submissions get the same answer, and no
\* generate runs for a completed job.
C8_SameAnswer ==
    \A q1, q2 \in DoneReqs :
        (/\ q1.url = q2.url
         /\ q1.response[1].status = "completed"
         /\ q2.response[1].status = "completed")
        => q1.response = q2.response
C8_Step ==
    /\ \A u \in Keys :
         \A i \in JobsFor(u) :
            (jobs[i].status = "completed" /\ SubmitCheck(u))
            => /\ jobs' = jobs
               /\ genCount' = genCount
               /\ AnswersAtOnce(u, Reply(i, "completed", ApiAudio(i)))
    /\ \A i \in DOMAIN jobs :
         jobs[i].status = "completed" => genCount'[i] = genCount[i]
C8_IdempotentOnCompleted == []C8_SameAnswer /\ [][C8_Step]_vars
\* Two submissions of one key have both been answered with the completed job.
C8_Witness ==
    \E q \in DoneReqs :
        /\ q.response[1].status = "completed"
        /\ q.response[1].audio_url # None
        /\ CopiesIn(q, reqs) >= 2

\* C9: a submission arriving while the key's job is queued or processing is
\* answered with that job's id and current status and creates no job; all
\* successful answers for one key carry the same job id.
C9_SameJobId ==
    \A q1, q2 \in DoneReqs :
        (/\ q1.url = q2.url
         /\ q1.response[1].code = 200
         /\ q2.response[1].code = 200)
        => q1.response[1].job_id = q2.response[1].job_id
C9_Step ==
    \A u \in Keys :
        \A i \in JobsFor(u) :
            (jobs[i].status \in {"queued", "processing"} /\ SubmitCheck(u))
            => /\ jobs' = jobs
               /\ AnswersAtOnce(u, Reply(i, jobs[i].status, None))
C9_InFlightReuse == []C9_SameJobId /\ [][C9_Step]_vars
\* A submission answered while the job was queued and a later one for the
\* same key, answered while it is processing, hold the same job id.
C9_Witness ==
    \E q1, q2 \in DoneReqs :
        /\ q1.url = q2.url
        /\ q1.response[1].status = "queued"
        /\ q2.response[1].status = "processing"
        /\ jobs[q2.response[1].job_id].status = "processing"
        /\ q1.response[1].job_id = q2.response[1].job_id

\* C10: the insert of a submission for a key with no job adds exactly one row
\* (queued, retry_count 0, started_at, completed_at, artifact columns, title
\* and error_message unset) and answers with its id and status queued; the
\* table grows in no other step.
C10_Step ==
    /\ \A q \in InFlight :
         (SubmitInsert(q) /\ JobsFor(q.url) = {})
         => /\ jobs' = Append(jobs,
                  [id |-> Len(jobs) + 1, url |-> q.url,
                   status |-> "queued", created_at |-> clock,
                   retry_count |-> 0, started_at |-> None,
                   completed_at |-> None, audio_filename |-> None,
                   audio_url |-> None, title |-> None, duration |-> None,
                   error_message |-> None])
            /\ Answers(q, Reply(Len(jobs) + 1, "queued", None))
    /\ Len(jobs') # Len(jobs)
         => /\ Len(jobs') = Len(jobs) + 1
            /\ \E q \in InFlight : SubmitInsert(q)
C10_SubmitCreatesQueuedJob == [][C10_Step]_vars
\* A job has just been created (it is still as inserted, by the latest stamp
\* of the clock) and a caller holds its id with status queued.
C10_Witness ==
    \E q \in DoneReqs :
        /\ q.response[1].code = 200
        /\ q.response[1].status = "queued"
        /\ jobs[q.response[1].job_id].status = "queued"
        /\ jobs[q.response[1].job_id].created_at = clock - 1

\* C11: jobs are claimed in the order of their creation: a poll hands out the
\* queued job with the smallest created_at, the job marked processing is the
\* oldest queued one also when submissions arrived meanwhile, and of two
\* jobs the one created later is never started before the one created
\* earlier.
Queued == {i \in DOMAIN jobs : jobs[i].status = "queued"}
OldestQueued(i) ==
    /\ i \in Queued
    /\ \A k \in Queued : jobs[i].created_at <= jobs[k].created_at
Claims(w, i) ==
    StartJob(w) /\ worker[w].job_id = i /\ jobs'[i].status = "processing"
C11_StartedInOrder ==
    \A i, k \in DOMAIN jobs :
        (jobs[i].created_at < jobs[k].created_at /\ jobs[k].started_at # None)
        => /\ jobs[i].started_at # None
           /\ jobs[i].started_at[1] < jobs[k].started_at[1]
C11_Step ==
    \A w \in workers :
        /\ (Poll(w) /\ Queued # {}) => OldestQueued(worker'[w].job_id)
        /\ (Poll(w) /\ Queued = {}) => worker'[w].pc = "idle_sleep"
        /\ \A i \in DOMAIN jobs : Claims(w, i) => OldestQueued(i)
C11_FifoClaimOrder == []C11_StartedInOrder /\ [][C11_Step]_vars
\* Two jobs were both queued before either was claimed, and both have been
\* claimed since, the older one first.
C11_Witness ==
    \E i, k \in DOMAIN jobs :
        /\ jobs[i].created_at < jobs[k].created_at
        /\ jobs[i].started_at # None /\ jobs[k].started_at # None
        /\ jobs[k].created_at < jobs[i].started_at[1]
        /\ jobs[i].started_at[1] < jobs[k].started_at[1]

\* C12: a completed job has an artifact reference (the file name; with
\* worker.py also the public URL) and no error_message; a job that is not
\* completed has no artifact reference.
HasArtifact(p) == p.audio_filename # None \/ p.audio_url # None
C13_FailedHasError ==
    \A i \in DOMAIN jobs :
        /\ jobs[i].status = "failed" =>
              /\ jobs[i].error_message # None
              /\ jobs[i].error_message[1] >= 1
              /\ jobs[i].error_message[1] <= ErrorLimit
              /\ jobs[i].retry_count >= 1
        /\ jobs[i].error_message # None => jobs[i].status = "failed"

\* C14: started_at is set exactly for the jobs that were marked processing
\* at some point, completed_at exactly for the completed and failed jobs.
C14_Timestamps ==
    \A i \in DOMAIN jobs :
        /\ jobs[i].started_at # None <=> claimCount[i] >= 1
        /\ jobs[i].completed_at # None <=> jobs[i].status \in Terminal
\* A queued, untouched job next to one that went through processing to a
\* terminal status.
C14_Witness ==
    \E i, k \in DOMAIN jobs :
        /\ jobs[i].status = "queued" /\ jobs[i].started_at = None
        /\ jobs[k].status \in Terminal
        /\ jobs[k].started_at # None /\ jobs[k].completed_at # None

\* C15: every failure inside an attempt (generate_podcast raises, the output
\* file is missing, the upload raises) takes the attempt to the except
\* branch with the table untouched; the except branch's update leaves the
\* job failed with completed_at set, the error text cut to 500 characters
\* and retry_count one above its previous value, and the loop polls again.
AttemptFails(w) ==
    /\ Generate(w) \/ DetachedRead(w) \/ Upload(w)
    /\ worker'[w].pc \notin {"upload", "complete"}
C15_InExcept ==
    \A w \in workers :
        worker[w].pc = "fail" =>
            /\ worker[w].job_id \in DOMAIN jobs
            /\ jobs[worker[w].job_id].status = "processing"
C15_Step ==
    \A w \in workers :
        LET id == worker[w].job_id
            e == worker[w].error
        IN  /\ AttemptFails(w) => worker'[w].pc = "fail" /\ jobs' = jobs
            /\ Fail(w) =>
                  /\ jobs' = [jobs EXCEPT ![id] =
                        [@ EXCEPT !.status = "failed",
                                  !.completed_at = Some(clock),
                                  !.error_message =
                                      Some(IF e > ErrorLimit THEN ErrorLimit ELSE e),
                                  !.retry_count = @ + 1]]
                  /\ worker'[w].pc = "poll"
C15_HardFailure == []C15_InExcept /\ [][C15_Step]_vars
\* An attempt that called generate_podcast failed on an error text of more
\* than 500 characters: the row holds 500 of them, retry_count is 1 and the
\* loop is polling again.
C15_Witness ==
    \E i \in DOMAIN jobs :
        /\ jobs[i].status = "failed" /\ genCount[i] = 1
        /\ jobs[i].error_message = Some(ErrorLimit)
        /\ jobs[i].retry_count = 1
        /\ \A w \in workers : worker[w].pc = "poll"

\* C16: a job becomes completed only in an attempt in which generate_podcast
\* returned a file and the upload of that file succeeded afterwards; an
\* attempt whose upload failed leaves the job failed with no artifact
\* reference.  For every worker script.
C16_Step ==
    \A w \in workers :
        LET id == worker[w].job_id
        IN  /\ \A i \in DOMAIN jobs :
                 (jobs[i].status # "completed" /\ jobs'[i].status = "completed")
                 => \E v \in workers :
                       /\ Complete(v) /\ worker[v].job_id = i
                       /\ worker[v].audio_path # None
                       /\ worker[v].audio_url # None
            /\ (Upload(w) /\ worker'[w].pc = "fail") => worker'[w].audio_url = None
            /\ (Fail(w) /\ id \in DOMAIN jobs)
                 => jobs'[id].status = "failed" /\ ~HasArtifact(jobs'[id])
C17_EmptyArtifactFails ==
    /\ \A w \in workers :
          worker[w].pc \in {"upload", "complete"} =>
              /\ worker[w].audio_path # None
              /\ FileSize(worker[w].audio_path[1]) > 0
    /\ \A i \in DOMAIN jobs :
          jobs[i].status = "completed" =>
              /\ jobs[i].audio_filename # None
              /\ FileSize(jobs[i].audio_filename[1]) > 0

\* C18: when generate_podcast returned an existing file and the upload
\* succeeded, the completion session leaves the job completed with
\* completed_at, an artifact reference and a title, and the loop polls
\* again; from then on the job stays completed and GET /api/status answers
\* completed with an audio_url.
C18_StatusOfCompleted ==
    \A i \in DOMAIN jobs :
        jobs[i].status = "completed" =>
            LET r == get_job_status(jobs, i)
            IN  /\ r.code = 200 /\ r.status = "completed"
                /\ r.audio_url = ApiAudio(i)
                /\ r.completed_at # None
C18_Step ==
    /\ \A w \in workers :
          LET id == worker[w].job_id
          IN  /\ (Generate(w) /\ worker'[w].audio_path # None)
                   => worker'[w].pc = AfterFileCheck(entry)
              /\ (Upload(w) /\ worker'[w].audio_url # None)
                   => worker'[w].pc = "complete"
              /\ (Complete(w) /\ id \in DOMAIN jobs) =>
                   /\ jobs'[id].status = "completed"
                   /\ jobs'[id].completed_at = Some(clock)
                   /\ HasArtifact(jobs'[id])
                   /\ jobs'[id].title # None
                   /\ worker'[w].pc = "poll"
    /\ \A i \in DOMAIN jobs :
          jobs[i].status = "completed" => jobs'[i] = jobs[i]
C18_SuccessPath == []C18_StatusOfCompleted /\ [][C18_Step]_vars
\* A job was completed, and the loop has gone on to claim the next job while
\* the first still reads completed with its audio_url.
C18_Witness ==
    \E i, k \in DOMAIN jobs :
        /\ jobs[i].status = "completed" /\ jobs[i].title # None
        /\ get_job_status(jobs, i).audio_url # None
        /\ jobs[k].status = "processing"
        /\ jobs[k].started_at[1] > jobs[i].completed_at[1]

\* C19: while the worker loop runs, no store operation fails and
\* generate_podcast and the upload return, every job in the table is
\* eventually claimed and eventually completed or failed, whatever is
\* submitted meanwhile.  Rows are never removed, so it is stated as: again
\* and again the loop reaches a state in which every job of the table has
\* been claimed and is completed or failed.
AllJobsFinished ==
    \A i \in DOMAIN jobs : claimCount[i] >= 1 /\ jobs[i].status \in Terminal
C19_EveryJobFinishes == []<>AllJobsFinished
\* A job submitted while the attempt for an earlier job was running has been
\* claimed in its turn, and both jobs are completed or failed.
C19_Witness ==
    \E i, k \in DOMAIN jobs :
        /\ jobs[i].started_at # None
        /\ jobs[k].created_at > jobs[i].started_at[1]
        /\ jobs[i].completed_at # None
        /\ jobs[k].created_at < jobs[i].completed_at[1]
        /\ jobs[i].status \in Terminal /\ jobs[k].status \in Terminal
        /\ claimCount[k] >= 1

\* C20: with one worker loop at most one job is processing at any time, and
\* the loop marks no job processing while a job it marked before is still
\* processing, also when store operations fail during attempts.
Processing == {i \in DOMAIN jobs : jobs[i].status = "processing"}
C20_AtMostOneProcessing ==
    /\ Cardinality(workers) = 1 => Cardinality(Processing) <= 1
    /\ \A w \in workers :
          (worker[w].pc = "start" /\ Cardinality(workers) = 1) => Processing = {}

\* C21: the worker loop never polls, claims or changes a failed job and
\* never runs generate_podcast for it; generate_podcast runs only for a job
\* that a submission created and the loop then claimed from queued.
Failed == {i \in DOMAIN jobs : jobs[i].status = "failed"}
C21_FailedUntouched ==
    /\ \A w \in workers :
          worker[w].pc \in {"start", "generate", "upload", "complete", "fail"}
          => worker[w].job_id \notin Failed
    /\ \A i \in DOMAIN jobs : genCount[i] <= claimCount[i]
C21_Step ==
    /\ \A i \in Failed :
          /\ jobs'[i] = jobs[i]
          /\ genCount'[i] = genCount[i]
          /\ claimCount'[i] = claimCount[i]
    /\ \A w \in workers :
          Poll(w) => worker'[w].job_id \notin Failed
    /\ \A i \in DOMAIN jobs :
          genCount'[i] # genCount[i] => jobs[i].status = "processing"
C21_NoAutomaticRequeue == []C21_FailedUntouched /\ [][C21_Step]_vars
\* A job failed, and the loop has polled since: it took the other job and
\* left the failed one as it was, with its one generate_podcast call.
C21_Witness ==
    \E i, k \in DOMAIN jobs :
        /\ jobs[i].status = "failed" /\ genCount[i] = 1
        /\ jobs[k].status = "processing"
        /\ jobs[k].started_at[1] > jobs[i].completed_at[1]

\* C22: a store operation raising in the poll, the processing update or the
\* failed update does not end the loop: the loop takes its except branch
\* with the table untouched, sleeps, and polls again; the loop is always at
\* one of its positions.
LoopPositions == {"poll", "idle_sleep", "backoff", "start", "generate",
                  "upload", "complete", "fail"}
C22_LoopRuns == \A w \in workers : worker[w].pc \in LoopPositions
C22_Step ==
    \A w \in workers :
        /\ StoreErrorInLoop(w) => worker'[w].pc = "backoff" /\ jobs' = jobs
        /\ (worker[w].pc = "backoff" /\ worker'[w] # worker[w])
             => Backoff(w) /\ worker'[w].pc = "poll"
C22_LoopSurvivesErrors == []C22_LoopRuns /\ [][C22_Step]_vars
\* The failed update raised and left its job in processing; the loop has
\* backed off, polled again and taken the next job.
C22_Witness ==
    \E w \in workers :
        /\ worker[w].pc \in {"start", "generate"}
        /\ \E i \in DOMAIN jobs :
              /\ i # worker[w].job_id
              /\ jobs[i].status = "processing"
              /\ genCount[i] = 1

\* C23: a job that is processing while no attempt runs for it (the worker
\* was killed in the attempt, or the update that resolves the attempt
\* raised) is never returned by a poll again, keeps its row, and so stays
\* processing; every submission for its url is answered with that job as
\* processing, and no job is created for the url.
AttemptPositions == {"generate", "upload", "complete", "fail"}
Stranded ==
    {i \in Processing :
        \A w \in workers :
            ~(worker[w].job_id = i /\ worker[w].pc \in AttemptPositions)}
C23_Step ==
    \A i \in Stranded :
        /\ jobs'[i] = jobs[i]
        /\ \A w \in workers :
              /\ Poll(w) => worker'[w].job_id # i
              /\ ~(worker'[w].job_id = i /\ worker'[w].pc \in AttemptPositions)
        /\ SubmitCheck(jobs[i].url)
             => /\ jobs' = jobs
                /\ AnswersAtOnce(jobs[i].url, Reply(i, "processing", None))
        /\ \A k \in DOMAIN jobs' : jobs'[k].url = jobs[i].url => k = i
C23_StrandedStaysProcessing == [][C23_Step]_vars
\* The worker was killed before generate_podcast ran for a job; the job is
\* still processing after the loop has finished another job, and a
\* submission for its url has been answered with it.
C23_Witness ==
    \E i \in Stranded :
        /\ genCount[i] = 0
        /\ \E k \in DOMAIN jobs :
              /\ jobs[k].status \in Terminal
              /\ jobs[k].started_at[1] > jobs[i].started_at[1]
        /\ \E q \in DoneReqs :
              /\ q.url = jobs[i].url
              /\ q.response = Some(Reply(i, "processing", None))

Located(id, disk) ==
    \/ jobs[id].audio_filename # None /\ jobs[id].audio_filename[1] \in disk
    \/ PatternFile(id) \in disk
C25_AudioOnlyForCompleted ==
    \A id \in ReadIds :
        \A disk \in Disks(jobs, id) :
            LET r == serve_audio_file(jobs, id, disk)
            IN  IF id \in DOMAIN jobs /\ jobs[id].status = "completed"
                   /\ Located(id, disk)
                THEN r.code = 200 /\ r.file # None /\ r.file[1] \in disk
                ELSE r.code = 404 /\ r.file = None
\* A completed job whose file may or may not be on the API host, next to a
\* job that is processing: the route has all its cases.
C25_Witness ==
    \E i, k \in DOMAIN jobs :
        /\ jobs[i].status = "completed"
        /\ \E disk \in Disks(jobs, i) : serve_audio_file(jobs, i, disk).code = 200
        /\ \E disk \in Disks(jobs, i) : serve_audio_file(jobs, i, disk).code = 404
        /\ jobs[k].status = "processing"
        /\ \A disk \in Disks(jobs, k) : serve_audio_file(jobs, k, disk).code = 404

\* C26: the three GET handlers and the deduplication read leave every row as
\* it is; a submission answered from an existing job adds no row and
\* changes none, and the submission handler's only write is the append of
\* one new row.  Stated from the table's side: a step that changes the
\* table is none of the reads, and a step that changes or removes an
\* existing row is no step of the submission handler.
RowChanged == \E i \in DOMAIN jobs : i \notin DOMAIN jobs' \/ jobs'[i] # jobs[i]
C26_Step ==
    /\ jobs' # jobs =>
          /\ ~(GetStatus \/ GetLibrary \/ ServeAudio)
          /\ \A u \in Keys : ~SubmitCheck(u)
          /\ \A q \in InFlight : ~SubmitReturn(q)
    /\ (RowChanged \/ Len(jobs') \notin {Len(jobs), Len(jobs) + 1}) =>
          \A q \in InFlight : ~SubmitInsert(q)
C26_ReadPathsChangeNothing == [][C26_Step]_vars
\* The only job of the table is completed and a submission of its url was
\* answered from it: no second row, and the row reads as the worker left it.
C26_Witness ==
    /\ Len(jobs) = 1
    /\ \E q \in DoneReqs : q.response = Some(Reply(1, "completed", ApiAudio(1)))
    /\ get_job_status(jobs, 1).completed_at = jobs[1].completed_at
    /\ Len(get_podcast_library(jobs)) = 1

\* C27: no step removes a row: every id of the table is in the table after
\* the step, on the same row, and GET /api/library never lists fewer
\* entries than before (its length depends on the number of rows only).
C27_Step ==
    /\ \A i \in DOMAIN jobs :
          /\ i \in DOMAIN jobs'
          /\ jobs'[i].id = jobs[i].id
    /\ Len(jobs') # Len(jobs) =>
          Len(get_podcast_library(jobs')) >= Len(get_podcast_library(jobs))
C27_NeverDeleted == [][C27_Step]_vars
\* Both jobs went through the worker, one of them to failed, and the
\* library still lists both.
C27_Witness ==
    /\ Len(get_podcast_library(jobs)) = Cardinality(URLs)
    /\ \A i \in DOMAIN jobs : jobs[i].status \in Terminal
    /\ \E i \in DOMAIN jobs : jobs[i].status = "failed"

\* C28: get_all_podcasts(limit) returns min(limit, number of rows) rows of
\* the table, newest first by created_at, and no row left out is newer than
\* a row returned, whatever the rows' statuses; GET /api/library is that
\* list for limit 100.
Limits == {0, 1, LibraryLimit}
C28_LibraryNewestFirst ==
    \A limit \in Limits :
        LET l == get_all_podcasts(jobs, limit)
            listed == {l[n].id : n \in DOMAIN l}
        IN  /\ Len(l) = IF Len(jobs) <= limit THEN Len(jobs) ELSE limit
            /\ \A n \in DOMAIN l :
                  l[n].id \in DOMAIN jobs /\ l[n] = jobs[l[n].id]
            /\ \A n, m \in DOMAIN l :
                  n < m => l[n].created_at > l[m].created_at
            /\ \A i \in DOMAIN jobs \ listed :
                  \A k \in listed : jobs[i].created_at < jobs[k].created_at
            /\ limit = LibraryLimit =>
                  LET lib == get_podcast_library(jobs)
                  IN  /\ Len(lib) = Len(l)
                      /\ \A n \in DOMAIN lib :
                            lib[n].id = l[n].id /\ lib[n].status = l[n].status
\* The older job has failed and the newer one is still queued: a list of
\* one row holds the newer one.
C28_Witness ==
    \E i, k \in DOMAIN jobs :
        /\ jobs[i].created_at < jobs[k].created_at
        /\ jobs[i].status = "failed" /\ jobs[k].status = "queued"
        /\ get_all_podcasts(jobs, 1) = <<jobs[k]>>

\* C29: no step lowers the retry_count of any job.
C29_Step ==
    \A i \in DOMAIN jobs :
        i \in DOMAIN jobs' => jobs'[i].retry_count >= jobs[i].retry_count
C29_RetryCountMonotone == [][C29_Step]_vars
\* A job was counted one failed attempt, and the loop has since completed
\* another job.
C29_Witness ==
    \E i, k \in DOMAIN jobs :
        /\ jobs[i].retry_count = 1
        /\ jobs[k].status = "completed" /\ jobs[k].retry_count = 0
        /\ jobs[k].completed_at[1] > jobs[i].completed_at[1]

\* C30: a step that changes a row is the processing, completed or failed
\* update of the worker holding that job; it keeps the row's id, url and
\* created_at and changes no other row.
UpdatePositions == {"start", "complete", "fail"}
C30_Step ==
    \A i \in DOMAIN jobs :
        (i \in DOMAIN jobs' /\ jobs'[i] # jobs[i])
        => /\ \E w \in workers :
                 /\ worker[w].job_id = i /\ worker[w].pc \in UpdatePositions
                 /\ StartJob(w) \/ Complete(w) \/ Fail(w)
           /\ jobs'[i].id = jobs[i].id
           /\ jobs'[i].url = jobs[i].url
           /\ jobs'[i].created_at = jobs[i].created_at
           /\ \A k \in DOMAIN jobs \ {i} : jobs'[k] = jobs[k]
C30_WorkerFrame == [][C30_Step]_vars
\* One job was taken through processing to a terminal status while the
\* other, queued before that, is still exactly the row that was inserted.
C30_Witness ==
    \E i, k \in DOMAIN jobs :
        /\ jobs[i].status \in Terminal
        /\ jobs[k] = Podcast(k, jobs[k].url, jobs[k].created_at)
        /\ jobs[k].created_at < jobs[i].started_at[1]

\* C31: the attempt's last update leaves the loop at its next poll with no
\* sleep; an empty poll is followed by a sleep of the idle interval and a
\* loop-level error by a sleep of the back-off interval, each ending in the
\* next poll; generate_podcast is called only from inside an attempt, never
\* from a sleeping loop.
Sleeping == {"idle_sleep", "backoff"}
C31_Sleeps ==
    \A w \in workers :
        worker[w].sleep = IF worker[w].pc = "idle_sleep" THEN IdleInterval
                          ELSE IF worker[w].pc = "backoff" THEN BackoffInterval
                          ELSE 0
C31_Step ==
    \A w \in workers :
        /\ (worker[w].pc \in {"complete", "fail"}
               /\ jobs'[worker[w].job_id] # jobs[worker[w].job_id])
             => worker'[w].pc = "poll" /\ worker'[w].sleep = 0
        /\ (worker[w].pc = "poll" /\ worker'[w].pc = "idle_sleep")
             => get_next_queued_job(jobs) = None
        /\ (worker[w].pc = "poll" /\ get_next_queued_job(jobs) = None
               /\ worker'[w] # worker[w])
             => worker'[w].pc \in Sleeping
        /\ (worker[w].pc \notin Sleeping /\ worker'[w].pc = "backoff")
             => worker[w].pc \in {"poll", "start", "fail"} /\ jobs' = jobs
        /\ (worker[w].pc \in Sleeping /\ worker'[w] # worker[w])
             => worker'[w].pc = "poll"
        /\ \A i \in DOMAIN genCount :
              genCount'[i] # genCount[i]
              => worker[w].pc = "generate" /\ worker[w].job_id = i
C31_LoopPacing == []C31_Sleeps /\ [][C31_Step]_vars
\* One attempt has resolved, the poll after it found nothing, and the loop
\* is in its idle sleep.
C31_Witness ==
    \E w \in workers :
        /\ worker[w].pc = "idle_sleep" /\ worker[w].sleep = IdleInterval
        /\ \E i \in DOMAIN jobs : jobs[i].status \in Terminal
        /\ Queued = {}

\* C32: the completion session ends in status completed whatever the
\* duration computation and the title derivation did: the duration column is
\* the computed value or unset, the title is the derived one or, for a url
\* that cannot be parsed, the default title; a job is made failed only from
\* the except branch, which these two steps never enter.
C32_Step ==
    \A w \in workers :
        LET id == worker[w].job_id
        IN  /\ (worker[w].pc = "complete" /\ jobs'[id] # jobs[id])
                 => /\ jobs'[id].status = "completed"
                    /\ jobs'[id].duration \in {None, Some(1)}
                    /\ jobs'[id].title # None
                    /\ jobs'[id].title = Some(DefaultTitle)
                         <=> urlparse(jobs[id].url) = None
            /\ (worker[w].pc = "complete" /\ worker'[w].pc = "fail")
                 => worker'[w].error \in ErrLens
C32_AuxiliaryStepsNonFatal == [][C32_Step]_vars
\* A job whose url cannot be parsed and whose duration could not be computed
\* is completed, with the default title and no duration.
C32_Witness ==
    \E i \in DOMAIN jobs :
        /\ jobs[i].status = "completed"
        /\ urlparse(jobs[i].url) = None
        /\ jobs[i].title = Some(DefaultTitle)
        /\ jobs[i].duration = None

\* C33: the table never holds two rows with the same url, whatever the
\* rows' statuses.
C33_OneRowPerUrl ==
    \A i, k \in DOMAIN jobs : jobs[i].url = jobs[k].url => i = k
\* An insert was refused although the only row of its url had already
\* failed.
C33_Witness ==
    \E q \in DoneReqs :
        /\ q.response = Some(Err500)
        /\ \E i \in JobsFor(q.url) : jobs[i].status = "failed"

\* C34: with one worker loop generate_podcast is called at most once for
\* any job, and only for a job the loop has marked processing.
C34_GeneratedAtMostOnce ==
    \A i \in DOMAIN jobs : genCount[i] <= 1 /\ genCount[i] <= claimCount[i]
\* One job's attempt was cut off after generate_podcast ran (its row is
\* still processing and no attempt runs for it), a later job was taken to
\* a terminal status, and the loop has found the queue empty: each of the
\* two had generate_podcast called once.
C34_Witness ==
    \E i \in Stranded :
        /\ genCount[i] = 1
        /\ \E k \in DOMAIN jobs :
              /\ jobs[k].status \in Terminal /\ genCount[k] = 1
              /\ jobs[k].started_at[1] > jobs[i].started_at[1]
        /\ \A w \in workers : worker[w].pc = "idle_sleep"

\* C35: with one worker loop every row's retry_count is 0 or 1, and it is 1
\* exactly for the rows whose status is failed.
C35_RetryCountIsFailedFlag ==
    \A i \in DOMAIN jobs :
        /\ jobs[i].retry_count \in {0, 1}
        /\ jobs[i].retry_count = 1 <=> jobs[i].status = "failed"
\* One job has failed and is counted; the attempt of another ran
\* generate_podcast and was cut off, leaving its row processing and not
\* counted.
C35_Witness ==
    \E i \in DOMAIN jobs :
        /\ jobs[i].status = "failed" /\ jobs[i].retry_count = 1
        /\ \E k \in Stranded : jobs[k].retry_count = 0 /\ genCount[k] = 1

\* C36: generate_podcast is called for a job only while its row is
\* processing with started_at set.  When the processing update raises, the
\* table is unchanged (the job is queued, started_at unset), generate_podcast
\* has not been called, the loop backs off, and the job is still the one
\* the next poll returns: nothing moves the head of the queue while the
\* loop backs off or polls.
C36_Step ==
    \A w \in workers :
        LET id == worker[w].job_id
        IN  /\ \A i \in DOMAIN genCount :
                  genCount'[i] # genCount[i]
                  => /\ jobs[i].status = "processing"
                     /\ jobs[i].started_at # None
                     /\ claimCount[i] >= 1
            /\ (worker[w].pc = "start" /\ worker'[w].pc = "backoff")
                 => /\ jobs' = jobs /\ genCount' = genCount
                    /\ jobs[id].status = "queued"
                    /\ jobs[id].started_at = None
                    /\ get_next_queued_job(jobs') = Some(jobs[id])
            /\ (worker[w].pc \in {"backoff", "poll"}
                   /\ get_next_queued_job(jobs) # None)
                 => /\ get_next_queued_job(jobs') = get_next_queued_job(jobs)
                    /\ worker'[w].pc = "start"
                         => worker'[w].job_id = get_next_queued_job(jobs)[1].id
C37_TimestampOrder ==
    \A i \in DOMAIN jobs :
        /\ jobs[i].started_at # None
             => jobs[i].created_at <= jobs[i].started_at[1]
        /\ jobs[i].completed_at # None
             => /\ jobs[i].started_at # None
                /\ jobs[i].started_at[1] <= jobs[i].completed_at[1]

\* C38: a step in which a submission is answered with an error response
\* leaves the table as it was.
C38_Step ==
    jobs' # jobs
    => /\ \A q \in InFlight : q.pc = "checked" => ~Answers(q, Err500)
       /\ \A u \in Keys : ~AnswersAtOnce(u, Err500)
C38_SubmitErrorChangesNothing == [][C38_Step]_vars

====
